---------------------------- MODULE Spec2Model ----------------------------
(***************************************************************************)
(* A model of app/common/game_parser.py (class GameParser): the ingestion  *)
(* of parsed games into the Player / Game / Pairing tables (add_games),    *)
(* the reconstruction of a stored game (format_game), the in-memory filter *)
(* (get_games) and the pure helpers they are built from.                   *)
(*                                                                         *)
(* A Python str is modelled as a sequence of one-character strings, so     *)
(* that split, join, strip, lower and the substring test are computed as   *)
(* Python computes them.  Python's None is modelled as the id 0: row ids   *)
(* start at 1 and the code tests ids with "if not white_id".               *)
(***************************************************************************)
EXTENDS Integers, Sequences, FiniteSets, TLC

\* ---------------------------------------------------------------- bounds
\* Longest name string handed to the name resolver.
MaxNameLen == 4
\* Longest move token and longest move list of a parsed game.
MaxTokLen == 2
MaxMoves == 2
\* Most games of one parsed batch.
MaxGames == 2

VARIABLES
    Player,         \* committed rows of models.Player, id = position
    Game,           \* committed rows of models.Game, id = position
    Pairing,        \* committed rows of models.Pairing, in insertion order
    parsed_games,   \* self.parsed_games: the batch the parser was built with
    pc,             \* position inside add_games
    idx,            \* position of add_games' for loop in parsed_games
    db_player_ids,  \* add_games' local: the dict returned by __add_players
    db_game_id,     \* add_games' local: the id returned by __add_game
    created_in,     \* history: for each Player row, the batch position of the
                    \* game whose ingestion created it (0: it was there before)
    call,           \* the last operation called, with its arguments
    ret             \* what that operation returned or raised

vars == <<Player, Game, Pairing, parsed_games, pc, idx, db_player_ids,
          db_game_id, created_in, call, ret>>

db_vars == <<Player, Game, Pairing, created_in>>
add_games_vars == <<parsed_games, pc, idx, db_player_ids, db_game_id>>

None == 0

\* ------------------------------------------------------- Python str methods
\* The strings of length at most n over the characters cs.
RECURSIVE Strings(_, _)
Strings(cs, n) ==
    IF n = 0 THEN {<<>>}
    ELSE LET shorter == Strings(cs, n - 1)
         IN  shorter \cup {Append(s, c) : s \in shorter, c \in cs}

\* The sequences of length at most n of elements of S.
SeqsUpTo(S, n) == UNION {[1..k -> S] : k \in 0..n}

\* str.split(sep) for a one-character sep: every occurrence of sep separates
\* two segments; a string without sep (the empty one too) gives one segment.
RECURSIVE split(_, _)
split(s, sep) ==
    IF \A k \in 1..Len(s) : s[k] # sep
    THEN <<s>>
    ELSE LET k == CHOOSE k \in 1..Len(s) :
                      s[k] = sep /\ \A j \in 1..(k - 1) : s[j] # sep
         IN  <<SubSeq(s, 1, k - 1)>> \o split(SubSeq(s, k + 1, Len(s)), sep)

\* sep.join(list): the empty list gives the empty string.
RECURSIVE join(_, _)
join(sep, list) ==
    IF list = <<>> THEN <<>>
    ELSE IF Len(list) = 1 THEN list[1]
    ELSE list[1] \o <<sep>> \o join(sep, Tail(list))

\* str.strip(): leading and trailing whitespace removed.
RECURSIVE strip(_)
strip(s) ==
    IF s = <<>> THEN s
    ELSE IF Head(s) = " " THEN strip(Tail(s))
    ELSE IF s[Len(s)] = " " THEN strip(SubSeq(s, 1, Len(s) - 1))
    ELSE s

\* str.lower(), on the letters the model uses.
lower_char(c) ==
    CASE c = "K" -> "k"
      [] c = "G" -> "g"
      [] c = "E" -> "e"
      [] OTHER -> c

lower(s) == [k \in DOMAIN s |-> lower_char(s[k])]

\* Python's "sub in s" on strings.
contains(s, sub) ==
    \E k \in 0..(Len(s) - Len(sub)) : SubSeq(s, k + 1, k + Len(sub)) = sub

\* ------------------------------------------------------------ NameResolver
\* GameParser.__parse_player_name: name_string.split(','), first_name is
\* element 1 stripped when there is one, last_name is element 0 stripped.
__parse_player_name(name_string) ==
    LET name_array == split(name_string, ",")
    IN  [first_name |-> IF Len(name_array) > 1 THEN strip(name_array[2])
                        ELSE <<>>,
         last_name  |-> strip(name_array[1])]

\* --------------------------------------------------- PlayerIdentityStore
\* A lookup detached from the batch's own commits: it sees only the rows the
\* store held when the batch began.
player_in_db_stale(player, stringified) ==
    LET p == IF stringified THEN __parse_player_name(player) ELSE player
        player_in_db_rows ==
            {k \in DOMAIN Player : /\ Player[k].first_name = p.first_name
                                   /\ Player[k].last_name = p.last_name
                                   /\ created_in[k] = 0}
    IN  IF Cardinality(player_in_db_rows) > 0 THEN player_in_db_rows
        ELSE {None}

\* GameParser.player_in_db: the id of a Player row with exactly this
\* first_name and last_name, or None.  The query has no ORDER BY, so with
\* several matching rows .first() may be any of them: the operator gives the
\* set of ids the call can return.
player_in_db(player, stringified) ==
    LET p == IF stringified THEN __parse_player_name(player) ELSE player
        player_in_db_rows ==
            {k \in DOMAIN Player : /\ Player[k].first_name = p.first_name
                                   /\ Player[k].last_name = p.last_name}
    IN  IF Cardinality(player_in_db_rows) > 0 THEN player_in_db_rows
        ELSE {None}

\* GameParser.__add_players: both names are parsed and looked up BEFORE any
\* row is added; a row is added for each id that is None; one commit; the new
\* rows get the next ids in the order they were added (white first).  Gives
\* every (rows added, ids returned) the call can produce.
__add_players(white, black) ==
    LET white_parsed == __parse_player_name(white)
        black_parsed == __parse_player_name(black)
    IN  {[added |-> (IF white_id = None THEN <<white_parsed>> ELSE <<>>)
                    \o (IF black_id = None THEN <<black_parsed>> ELSE <<>>),
          ids |-> [white |-> IF white_id = None THEN Len(Player) + 1
                             ELSE white_id,
                   black |-> IF black_id = None
                             THEN Len(Player)
                                  + (IF white_id = None THEN 2 ELSE 1)
                             ELSE black_id]] :
            white_id \in player_in_db(white_parsed, FALSE),
            black_id \in player_in_db(black_parsed, FALSE)}

\* GameParser.__add_game: the Game row built from a parsed game; the move
\* list is stored as ','.join(game.moves).
__add_game(game) ==
    [event       |-> game.event,
     site        |-> game.site,
     date        |-> game.date,
     match_round |-> game.round,
     result      |-> game.result,
     white_elo   |-> game.whiteelo,
     black_elo   |-> game.blackelo,
     moves       |-> join(",", game.moves),
     eco         |-> game.eco]

\* GameParser.__add_pairings: the two Pairing rows, black added first.
__add_pairings(game_id, player_ids) ==
    <<[game_id |-> game_id, player_id |-> player_ids.black, color |-> "black"],
      [game_id |-> game_id, player_id |-> player_ids.white, color |-> "white"]>>

\* ------------------------------------------------------------- add_games
\* add_games is modelled one db.session.commit() at a time: each commit
\* publishes rows that every other session sees from then on, and each may
\* raise.  pc is the call the loop body is about to make.

\* GameParser.add_games, up to the loop: nothing happens for a parser without
\* parsed games.
add_games ==
    /\ pc = "ready"
    /\ call' = [op |-> "add_games"]
    /\ ret' = [tag |-> "pending"]
    /\ IF Len(parsed_games) > 0
       THEN pc' = "__add_players" /\ idx' = 1
       ELSE pc' = "done" /\ idx' = idx
    /\ UNCHANGED <<db_vars, parsed_games, db_player_ids, db_game_id>>

\* The loop body's first call, db_player_ids = self.__add_players(...).
AddPlayers ==
    /\ pc = "__add_players"
    /\ \E r \in __add_players(parsed_games[idx].white, parsed_games[idx].black) :
          /\ Player' = Player \o r.added
          /\ created_in' = created_in \o [k \in 1..Len(r.added) |-> idx]
          /\ db_player_ids' = r.ids
    /\ pc' = "__add_game"
    /\ UNCHANGED <<Game, Pairing, parsed_games, idx, db_game_id, call, ret>>

\* The loop body's second call, db_game_id = self.__add_game(game).
AddGame ==
    /\ pc = "__add_game"
    /\ Game' = Append(Game, __add_game(parsed_games[idx]))
    /\ db_game_id' = Len(Game) + 1
    /\ pc' = "__add_pairings"
    /\ UNCHANGED <<Player, Pairing, created_in, parsed_games, idx,
                   db_player_ids, call, ret>>

\* The loop body's last call, self.__add_pairings(...), then expunge_all()
\* (which detaches the session's objects and changes no row) and the loop's
\* step to the next parsed game.
AddPairings ==
    /\ pc = "__add_pairings"
    /\ Pairing' = Pairing \o __add_pairings(db_game_id, db_player_ids)
    /\ IF idx < Len(parsed_games)
       THEN pc' = "__add_players" /\ idx' = idx + 1 /\ ret' = ret
       ELSE pc' = "done" /\ idx' = idx /\ ret' = [tag |-> "return"]
    /\ UNCHANGED <<Player, Game, created_in, parsed_games, db_player_ids,
                   db_game_id, call>>

\* A commit raises: add_games catches nothing, so the exception leaves it and
\* whatever the earlier commits published stays.
StorageFailure ==
    /\ pc \in {"__add_players", "__add_game", "__add_pairings"}
    /\ pc' = "raised"
    /\ ret' = [tag |-> "raise", error |-> "StorageFailure", at |-> pc]
    /\ UNCHANGED <<db_vars, parsed_games, idx, db_player_ids, db_game_id, call>>

\* ----------------------------------------------------------- ColorResolver
\* Python's empty dict.
EmptyDict == [k \in {} |-> None]

\* Pairing.query.filter_by(player_id=..., game_id=...).first(): a matching
\* row (its position in Pairing) or None; no ORDER BY, so any matching row.
first_pairing(player_id, game_id) ==
    LET rows == {k \in DOMAIN Pairing : /\ Pairing[k].player_id = player_id
                                        /\ Pairing[k].game_id = game_id}
    IN  IF rows = {} THEN {None} ELSE rows

\* GameParser.__unparse_players_with_color, players being the ids of the
\* Player objects handed in.  Gives every outcome of the call: the dict it
\* returns, or the exception Python raises (players[1] on a shorter list,
\* .color on a None pairing).  The dict stays empty when neither pairing read
\* is white.
__unparse_players_with_color(players, game_id) ==
    IF Len(players) < 2
    THEN {[tag |-> "raise", error |-> "IndexError"]}
    ELSE {IF pairing_1 = None
          THEN [tag |-> "raise", error |-> "AttributeError"]
          ELSE IF Pairing[pairing_1].color = "white"
          THEN [tag |-> "return",
                value |-> [white |-> players[1], black |-> players[2]]]
          ELSE IF pairing_2 = None
          THEN [tag |-> "raise", error |-> "AttributeError"]
          ELSE IF Pairing[pairing_2].color = "white"
          THEN [tag |-> "return",
                value |-> [white |-> players[2], black |-> players[1]]]
          ELSE [tag |-> "return", value |-> EmptyDict] :
             pairing_1 \in first_pairing(players[1], game_id),
             pairing_2 \in first_pairing(players[2], game_id)}

\* models.Game.players: the Player entities the game's Pairing rows link to
\* it, in no specified order.  Gives every order.
game_players(game_id) ==
    LET rows == {k \in DOMAIN Pairing : Pairing[k].game_id = game_id}
        n == Cardinality(rows)
    IN  {[i \in 1..n |-> Pairing[f[i]].player_id] :
            f \in {g \in [1..n -> rows] : \A i, j \in 1..n : g[i] = g[j] => i = j}}

\* models.Player.full_name(): the display form "First Last".
full_name(player_id) ==
    Player[player_id].first_name \o <<" ">> \o Player[player_id].last_name

\* --------------------------------------------------------- RecordFormatter
\* GameParser.format_game's two branches, once the colored players are known.
\* 'dict' and 'json' give the mapping, whose moves is game.moves as stored;
\* anything else gives what is handed to pgn.dumps, whose moves is
\* game.moves.split(',') (the serialization itself is the pgn library's).
format_game_as(game, white, black, return_type) ==
    IF return_type \in {"dict", "json"}
    THEN [event     |-> game.event,
          site      |-> game.site,
          date      |-> game.date,
          round     |-> game.match_round,
          white_elo |-> game.white_elo,
          black_elo |-> game.black_elo,
          white     |-> white,
          black     |-> black,
          moves     |-> game.moves,
          eco       |-> game.eco]
    ELSE [pgn |-> [event |-> game.event, site |-> game.site,
                   date |-> game.date, round |-> game.match_round,
                   result |-> game.result, whiteelo |-> game.white_elo,
                   blackelo |-> game.black_elo, white |-> white,
                   black |-> black, eco |-> game.eco,
                   moves |-> split(game.moves, ","),
                   annotator |-> "", plycount |-> "", timecontrol |-> "",
                   time |-> "", termination |-> "", mode |-> "", fen |-> ""]]

\* GameParser.format_game: every outcome of formatting the stored game
\* game_id.  players['white'] on a dict without that key raises KeyError.
format_game(game_id, return_type) ==
    {IF players.tag = "raise" THEN players
     ELSE IF "white" \notin DOMAIN players.value
     THEN [tag |-> "raise", error |-> "KeyError"]
     ELSE [tag |-> "return",
           value |-> format_game_as(Game[game_id],
                                    full_name(players.value.white),
                                    full_name(players.value.black),
                                    return_type)] :
        players \in UNION {__unparse_players_with_color(ps, game_id) :
                              ps \in game_players(game_id)}}

\* ------------------------------------------------------------ RecordFilter
\* The test of the 'name' key: the criterion as given, against the lowered
\* full names.
name_match(name, white, black) ==
    contains(lower(white), name) \/ contains(lower(black), name)

\* The test of the 'eco' key: both sides lowered.
eco_match(eco, game_eco) == lower(eco) = lower(game_eco)

\* GameParser.__game_match: every outcome of matching the stored game game_id
\* against request_args, a dict with any of the keys 'name' and 'eco'.
__game_match(game_id, request_args) ==
    LET eco_ok == ("eco" \in DOMAIN request_args) =>
                      eco_match(request_args.eco, Game[game_id].eco)
    IN  IF "name" \in DOMAIN request_args
        THEN {IF players.tag = "raise" THEN players
              ELSE IF "white" \notin DOMAIN players.value
              THEN [tag |-> "raise", error |-> "KeyError"]
              ELSE [tag |-> "return",
                    value |-> /\ name_match(request_args.name,
                                            full_name(players.value.white),
                                            full_name(players.value.black))
                              /\ eco_ok] :
                 players \in UNION {__unparse_players_with_color(ps, game_id) :
                                       ps \in game_players(game_id)}}
        ELSE {[tag |-> "return", value |-> eco_ok]}

\* GameParser.get_games: all games (their ids, in table order) when
\* request_args has no key, else those __game_match accepts, in the same
\* order; the first exception of a match leaves get_games.
get_games(request_args) ==
    IF DOMAIN request_args = {}
    THEN {[tag |-> "return", value |-> [g \in DOMAIN Game |-> g]]}
    ELSE {IF \E g \in DOMAIN Game : m[g].tag = "raise"
          THEN m[CHOOSE g \in DOMAIN Game :
                    /\ m[g].tag = "raise"
                    /\ \A h \in 1..(g - 1) : m[h].tag # "raise"]
          ELSE [tag |-> "return",
                value |-> SelectSeq([g \in DOMAIN Game |-> g],
                                    LAMBDA g : m[g].value)] :
             m \in {f \in [DOMAIN Game ->
                              UNION {__game_match(g, request_args) :
                                        g \in DOMAIN Game}] :
                       \A g \in DOMAIN Game :
                           f[g] \in __game_match(g, request_args)}}

\* ------------------------------------------------------- retrieval actions
\* Retrieval changes no row, so one retrieval call after add_games has
\* returned or raised reaches every outcome retrieval has on that store.
Retrievable == pc \in {"done", "raised"} /\ call.op = "add_games"

\* format_game(game, return_type) called on a stored game.
FormatGame(return_types) ==
    /\ Retrievable
    /\ \E game_id \in DOMAIN Game, return_type \in return_types :
          /\ call' = [op |-> "format_game", game_id |-> game_id,
                      return_type |-> return_type]
          /\ ret' \in format_game(game_id, return_type)
    /\ UNCHANGED <<db_vars, add_games_vars>>

\* get_games(request_args).
GetGames(criteria) ==
    /\ Retrievable
    /\ \E request_args \in criteria :
          /\ call' = [op |-> "get_games", request_args |-> request_args]
          /\ ret' \in get_games(request_args)
    /\ UNCHANGED <<db_vars, add_games_vars>>

\* ---------------------------------------------------- specification: Spec
\* A parser built with a batch of parsed games over a store that holds some
\* players already; add_games, then retrieval.
ParsedGame(white, black, moves, eco) ==
    [event |-> "Linares", site |-> "ESP", date |-> "1993.02.25",
     round |-> "1", result |-> "1-0", whiteelo |-> "2725",
     blackelo |-> "2805", white |-> white, black |-> black,
     moves |-> moves, eco |-> eco]

\* dict(name=..., eco=...) with only the keys of keys.
Criteria(keys, name, eco) ==
    [k \in keys |-> IF k = "name" THEN name ELSE eco]

\* "K,G" | "K, G" | "E,G": the first two resolve to the same
\* (first_name, last_name).
Names == {<<"K", ",", "G">>, <<"K", ",", " ", "G">>, <<"E", ",", "G">>}

SpecGames == {ParsedGame(w, b, <<<<"e">>, <<"d">>>>, <<"E">>) : w, b \in Names}

\* The Player tables the store may hold beforehand: no duplicate names.
InitialPlayers == {<<>>, <<[first_name |-> <<"G">>, last_name |-> <<"K">>]>>}

Ready(players, batches) ==
    /\ Player \in players
    /\ created_in = [k \in DOMAIN Player |-> 0]
    /\ Game = <<>> /\ Pairing = <<>>
    /\ parsed_games \in batches
    /\ pc = "ready" /\ idx = 0
    /\ db_player_ids = [white |-> None, black |-> None]
    /\ db_game_id = None
    /\ call = [op |-> "GameParser"]
    /\ ret = [tag |-> "return"]

Init == Ready(InitialPlayers, SeqsUpTo(SpecGames, MaxGames))

SpecCriteria == {Criteria({}, <<>>, <<>>), Criteria({"name"}, <<"k">>, <<>>),
                 Criteria({"eco"}, <<>>, <<"e">>)}

Next ==
    \/ add_games
    \/ AddPlayers
    \/ AddGame
    \/ AddPairings
    \/ StorageFailure
    \/ FormatGame({"pgn", "dict"})
    \/ GetGames(SpecCriteria)

Spec == Init /\ [][Next]_vars

\* --------------------------------------------------- claims: C1 C2 C3 C4 C6
Colors == {"white", "black"}

\* The Pairing rows (positions) of game game_id with this color.
PairingsOf(game_id, color) ==
    {k \in DOMAIN Pairing : /\ Pairing[k].game_id = game_id
                            /\ Pairing[k].color = color}

\* The (first_name, last_name) the resolver gives the color's name of the
\* j-th parsed game.
NamePair(j, color) == __parse_player_name(parsed_games[j][color])

\* C1: the Player table holds at most one row per (first_name, last_name),
\* also when the white and the black name of one game resolve to the same
\* pair.
C1_OneRowPerNamePair ==
    \A a, b \in DOMAIN Player : Player[a] = Player[b] => a = b

\* C2: after add_games returns normally every Game row has exactly two
\* Pairing rows, one white and one black, referencing two distinct Player ids.
C2_TwoPairingsTwoPlayers ==
    pc = "done" =>
        \A g \in DOMAIN Game :
            /\ Cardinality({k \in DOMAIN Pairing : Pairing[k].game_id = g}) = 2
            /\ Cardinality(PairingsOf(g, "white")) = 1
            /\ Cardinality(PairingsOf(g, "black")) = 1
            /\ \A w \in PairingsOf(g, "white"), b \in PairingsOf(g, "black") :
                   Pairing[w].player_id # Pairing[b].player_id

\* C3: in every committed state no Game row is without both of its Pairing
\* rows, and once a commit has raised nothing of the game being ingested
\* (a Player row it created, its Game row, a Pairing row) is left committed.
C3_GameAllOrNothing ==
    /\ \A g \in DOMAIN Game :
           PairingsOf(g, "white") # {} /\ PairingsOf(g, "black") # {}
    /\ pc = "raised" =>
           /\ \A p \in DOMAIN Player : created_in[p] # idx
           /\ Len(Game) < idx
           /\ \A k \in DOMAIN Pairing : Pairing[k].game_id < idx

\* C4: games are ingested in input order (the j-th Game row is the j-th parsed
\* game, and its Pairing of each color references a Player with that game's
\* name of that color), and a Player created while ingesting game i is seen
\* by every later game j of the batch: when a name of game j resolves to the
\* pair of a name of game i, game j's Pairing references a Player row with
\* that pair that was there once game i was ingested (one created by game i,
\* if game i created any), and ingesting game j created no row with that pair.
C4_EarlierPlayerVisible ==
    /\ \A j \in DOMAIN Game : Game[j] = __add_game(parsed_games[j])
    /\ \A k \in DOMAIN Pairing :
           Player[Pairing[k].player_id] =
               NamePair(Pairing[k].game_id, Pairing[k].color)
    /\ \A j \in 1..Len(parsed_games), i \in 1..Len(parsed_games) :
       \A c, d \in Colors :
           (i < j /\ NamePair(j, c) = NamePair(i, d)) =>
               /\ \A q \in DOMAIN Player :
                      Player[q] = NamePair(j, c) => created_in[q] # j
               /\ \A k \in PairingsOf(j, c) :
                      LET p == Pairing[k].player_id
                      IN  /\ created_in[p] <= i
                          /\ (\E q \in DOMAIN Player :
                                 /\ Player[q] = NamePair(i, d)
                                 /\ created_in[q] = i)
                             => created_in[p] = i

\* C4's case: a batch has been ingested whose second game names a player its
\* first game created, and the second game's Pairing references that row.
C4_Witness ==
    /\ pc = "done" /\ Len(parsed_games) >= 2
    /\ NamePair(1, "white") # NamePair(1, "black")
    /\ \E c, d \in Colors :
          /\ NamePair(2, c) = NamePair(1, d)
          /\ parsed_games[2][c] # parsed_games[1][d]
          /\ \E k \in PairingsOf(2, c) :
                /\ created_in[Pairing[k].player_id] = 1
                /\ \E m \in PairingsOf(1, d) :
                      Pairing[m].player_id = Pairing[k].player_id

\* C6: for a game with Pairings (A, white) and (B, black) the resolver
\* returns exactly {white: A, black: B} for the players in either order, and
\* format_game reports as white the player add_games stored as white, for
\* every game.
C6_StoredWhiteIsReportedWhite ==
    /\ \A g \in DOMAIN Game :
       \A w \in PairingsOf(g, "white"), b \in PairingsOf(g, "black") :
           LET A == Pairing[w].player_id
               B == Pairing[b].player_id
               expected == {[tag |-> "return",
                             value |-> [white |-> A, black |-> B]]}
           IN  /\ __unparse_players_with_color(<<A, B>>, g) = expected
               /\ __unparse_players_with_color(<<B, A>>, g) = expected
    /\ call.op = "format_game" =>
           /\ ret.tag = "return"
           /\ \A w \in PairingsOf(call.game_id, "white") :
                  LET white == full_name(Pairing[w].player_id)
                  IN  IF call.return_type \in {"dict", "json"}
                      THEN ret.value.white = white
                      ELSE ret.value.pgn.white = white

\* ----------------------------------------------- specification: SpecMoves
\* One parsed game with every move list up to MaxMoves non-empty tokens of up
\* to MaxTokLen characters, ingested and then retrieved.
MoveChars == {"e", ","}
MoveLists == SeqsUpTo(Strings(MoveChars, MaxTokLen) \ {<<>>}, MaxMoves)
ReturnTypes == {"pgn", "dict", "json", "xml"}

InitMoves ==
    Ready({<<>>},
          {<<ParsedGame(<<"K", ",", "G">>, <<"E", ",", "G">>, moves, <<"E">>)>> :
              moves \in MoveLists})

NextMoves ==
    \/ add_games
    \/ AddPlayers
    \/ AddGame
    \/ AddPairings
    \/ StorageFailure
    \/ FormatGame(ReturnTypes)

SpecMoves == InitMoves /\ [][NextMoves]_vars

\* ----------------------------------------------------------- claims: C7 C10
\* C7: every move list stored by __add_game and read back by format_game's
\* textual branch is the original ordered move list, the empty list and a
\* list with a ',' inside a token included.
C7_MovesRoundTrip ==
    (/\ call.op = "format_game"
     /\ call.return_type \notin {"dict", "json"}
     /\ ret.tag = "return") =>
        ret.value.pgn.moves = parsed_games[call.game_id].moves

\* (The model writes both Python's '' and Python's [] as <<>>, so the
\* formula below is decided by the non-empty move lists.)
\* C10: 'dict' and 'json' give a mapping with exactly the ten keys, whose
\* moves is the ingested ordered move list (a sequence of move strings, not
\* the comma-delimited string); every other return_type gives the textual
\* reconstruction.
DictKeys == {"event", "site", "date", "round", "white_elo", "black_elo",
             "white", "black", "moves", "eco"}

C10_DictMovesIsMoveList ==
    (call.op = "format_game" /\ ret.tag = "return") =>
        IF call.return_type \in {"dict", "json"}
        THEN /\ DOMAIN ret.value = DictKeys
             /\ ret.value.moves = parsed_games[call.game_id].moves
        ELSE DOMAIN ret.value = {"pgn"}

\* ----------------------------------------------- specification: SpecColor
\* The color resolver on a stored game whose two Pairing rows carry any
\* colors and reference any two of three players, for the players in either
\* order.
ColorPlayers == <<[first_name |-> <<"G">>, last_name |-> <<"K">>],
                  [first_name |-> <<"G">>, last_name |-> <<"E">>],
                  [first_name |-> <<>>, last_name |-> <<"K">>]>>

InitColor ==
    /\ Player = ColorPlayers
    /\ created_in = [k \in DOMAIN Player |-> 0]
    /\ Game = <<__add_game(ParsedGame(<<"K", ",", "G">>, <<"E", ",", "G">>,
                                      <<<<"e">>>>, <<"E">>))>>
    /\ Pairing \in {<<[game_id |-> 1, player_id |-> p1, color |-> c1],
                      [game_id |-> 1, player_id |-> p2, color |-> c2]>> :
                       p1, p2 \in DOMAIN ColorPlayers, c1, c2 \in Colors}
    /\ Pairing[1].player_id # Pairing[2].player_id
    /\ parsed_games = <<>> /\ pc = "done" /\ idx = 0
    /\ db_player_ids = [white |-> None, black |-> None]
    /\ db_game_id = None
    /\ call = [op |-> "add_games"]
    /\ ret = [tag |-> "return"]

\* __unparse_players_with_color(players, game_id) on the game's players.
UnparsePlayersWithColor ==
    /\ Retrievable
    /\ \E game_id \in DOMAIN Game :
       \E players \in game_players(game_id) :
          /\ call' = [op |-> "__unparse_players_with_color",
                      players |-> players, game_id |-> game_id]
          /\ ret' \in __unparse_players_with_color(players, game_id)
    /\ UNCHANGED <<db_vars, add_games_vars>>

NextColor ==
    \/ UnparsePlayersWithColor
    \/ FormatGame(ReturnTypes)

SpecColor == InitColor /\ [][NextColor]_vars

\* ------------------------------------------------------------- claims: C5
\* The game's Pairing rows are exactly one white and one black.
WellPaired(game_id) ==
    /\ Cardinality(PairingsOf(game_id, "white")) = 1
    /\ Cardinality(PairingsOf(game_id, "black")) = 1

\* C5: resolving the colors of a game whose two Pairings are not exactly one
\* white and one black raises MalformedPairing: it returns no mapping, be it
\* empty, incomplete or one that contradicts the stored colors.
C5_MalformedPairingRaises ==
    (/\ call.op \in {"__unparse_players_with_color", "format_game"}
     /\ ~WellPaired(call.game_id)) =>
        ret = [tag |-> "raise", error |-> "MalformedPairing"]

\* ---------------------------------------------- specification: SpecFilter
\* Batches of games with different players and ECO codes, ingested and then
\* filtered by every criteria mapping over short names and codes.
FilterGames ==
    {ParsedGame(w, <<"E", ",", "G">>, <<<<"e">>>>, eco) :
        w \in {<<"K", ",", "G">>, <<"K">>}, eco \in {<<"E">>, <<"e">>, <<"G">>}}

FilterCriteria ==
    {Criteria(keys, name, eco) :
        keys \in SUBSET {"name", "eco"},
        name \in Strings({"K", "k", "e"}, 2),
        eco \in {<<"E">>, <<"e">>, <<"g">>}}

InitFilter == Ready({<<>>}, SeqsUpTo(FilterGames, MaxGames))

NextFilter ==
    \/ add_games
    \/ AddPlayers
    \/ AddGame
    \/ AddPairings
    \/ StorageFailure
    \/ GetGames(FilterCriteria)

SpecFilter == InitFilter /\ [][NextFilter]_vars

\* ------------------------------------------------------------- claims: C9
\* What the claim's filter accepts: 'name', when present, is a substring of
\* the white or the black full name with BOTH sides lowered; 'eco', when
\* present, equals the game's code with both sides lowered.
Accepts(game_id, request_args) ==
    /\ ("name" \in DOMAIN request_args) =>
           \E k \in DOMAIN Pairing :
               /\ Pairing[k].game_id = game_id
               /\ contains(lower(full_name(Pairing[k].player_id)),
                           lower(request_args.name))
    /\ ("eco" \in DOMAIN request_args) =>
           lower(request_args.eco) = lower(Game[game_id].eco)

\* C9: over a store add_games has filled without a failure, get_games
\* returns, in their original order, exactly the games that satisfy every
\* supplied key, the name compared case-insensitively on both sides.
C9_FilterIsCaseInsensitive ==
    (call.op = "get_games" /\ pc = "done") =>
        ret = [tag |-> "return",
               value |-> SelectSeq([g \in DOMAIN Game |-> g],
                                   LAMBDA g : Accepts(g, call.request_args))]

\* ------------------------------------------------ specification: SpecName
\* The name resolver applied to every name string up to MaxNameLen.
NameChars == {"K", "G", ",", " "}

Idle ==
    /\ Player = <<>> /\ Game = <<>> /\ Pairing = <<>> /\ created_in = <<>>
    /\ parsed_games = <<>> /\ pc = "pure" /\ idx = 0
    /\ db_player_ids = [white |-> None, black |-> None]
    /\ db_game_id = None

InitName ==
    /\ Idle
    /\ call \in {[op |-> "__parse_player_name", name_string |-> s] :
                    s \in Strings(NameChars, MaxNameLen)}
    /\ ret = [tag |-> "pending"]

ParsePlayerName ==
    /\ call.op = "__parse_player_name"
    /\ ret.tag = "pending"
    /\ ret' = [tag |-> "return",
               value |-> __parse_player_name(call.name_string)]
    /\ UNCHANGED <<db_vars, add_games_vars, call>>

NextName == ParsePlayerName

SpecName == InitName /\ [][NextName]_vars

\* ------------------------------------------------------------- claims: C8
\* The text after the first comma of s, or "no comma".
FirstComma(s) == CHOOSE k \in 1..Len(s) :
                     s[k] = "," /\ \A j \in 1..(k - 1) : s[j] # ","
HasComma(s) == \E k \in 1..Len(s) : s[k] = ","

\* C8: for every name string the resolver splits on the FIRST comma only:
\* last_name is the trimmed text before the first comma and first_name is the
\* whole trimmed text after it (further commas included), or the empty
\* string when there is no comma.
C8_SplitsOnFirstCommaOnly ==
    (call.op = "__parse_player_name" /\ ret.tag = "return") =>
        LET s == call.name_string
        IN  IF HasComma(s)
            THEN /\ ret.value.last_name = strip(SubSeq(s, 1, FirstComma(s) - 1))
                 /\ ret.value.first_name =
                        strip(SubSeq(s, FirstComma(s) + 1, Len(s)))
            ELSE /\ ret.value.last_name = strip(s)
                 /\ ret.value.first_name = <<>>

=============================================================================
